---- MODULE Spec2Model ----
(***************************************************************************)
(* Unscented Kalman filter of src/src/ukf.cpp (class UKF): constructor,    *)
(* ProcessMeasurement, Prediction, UpdateLidar, UpdateRadar.               *)
(*                                                                         *)
(* C++ double is modelled as decimal floating point with an 8-digit        *)
(* mantissa: a number is <<m, e>> with value m * 10^e, 10^7 <= |m| < 10^8  *)
(* or m = 0, plus NaN and the two infinities.  Every operation rounds to   *)
(* nearest, as IEEE-754 does, only at 8 decimal digits instead of 53 bits. *)
(* There is no signed zero.                                                *)
(***************************************************************************)
EXTENDS Integers, Sequences, FiniteSets, TLC

(***************************************************************************)
(* double: representation                                                  *)
(***************************************************************************)
Zero == <<0, 0>>
NaN  == <<0, 999>>
PInf == <<1, 999>>
NInf == <<-1, 999>>

IsNaN(a)    == a[2] = 999 /\ a[1] = 0
IsInf(a)    == a[2] = 999 /\ a[1] # 0
IsFinite(a) == a[2] # 999
IsZero(a)   == a[2] # 999 /\ a[1] = 0

Pow10 == <<1, 10, 100, 1000, 10000, 100000, 1000000, 10000000, 100000000, 1000000000>>

IAbs(n) == IF n < 0 THEN -n ELSE n
ISgn(n) == IF n < 0 THEN -1 ELSE IF n > 0 THEN 1 ELSE 0

\* a / p rounded to nearest (half up), for a >= 0
RoundDiv(a, p) == (a \div p) + (IF 2 * (a % p) >= p THEN 1 ELSE 0)

\* n / 10^d rounded to nearest (half away from zero), 0 <= d <= 9
ShiftR(n, d) ==
  IF d = 0 THEN n
  ELSE IF n < 0 THEN -RoundDiv(-n, Pow10[d + 1])
  ELSE RoundDiv(n, Pow10[d + 1])

\* exponents beyond the double range overflow to infinity or underflow to 0
Finite(m, e) ==
  IF e > 300 THEN (IF m < 0 THEN NInf ELSE PInf)
  ELSE IF e < -330 THEN Zero
  ELSE <<m, e>>

\* a finite value of sign s, magnitude mantissa a in 10^7..10^8, exponent e
Pack(s, a, e) ==
  IF a = 100000000 THEN Finite(s * 10000000, e + 1) ELSE Finite(s * a, e)

\* the number of decimal digits of a > 0
RECURSIVE Digits(_)
Digits(a) == IF a < 10 THEN 1 ELSE 1 + Digits(a \div 10)

\* s * a * 10^e with a brought to 8 digits: d is its surplus of digits
Scale(s, a, e, d) ==
  Pack(s, IF d > 0 THEN ShiftR(a, d) ELSE a * Pow10[1 - d], e + d)

\* the double nearest to m * 10^e, for any integer |m| < 2^31
Norm(m, e) ==
  IF m = 0 THEN Zero ELSE Scale(ISgn(m), IAbs(m), e, Digits(IAbs(m)) - 8)

\* an int converted to double, and the decimal literal n * 10^-k
FromInt(n) == Norm(n, 0)
Dec(n, k)  == Norm(n, -k)

(***************************************************************************)
(* double: + - * / and comparisons                                         *)
(***************************************************************************)
FNeg(a) == <<-a[1], a[2]>>
FAbs(a) == <<IAbs(a[1]), a[2]>>

FAdd(a, b) ==
  IF IsNaN(a) \/ IsNaN(b) THEN NaN
  ELSE IF IsInf(a) THEN (IF IsInf(b) /\ a # b THEN NaN ELSE a)
  ELSE IF IsInf(b) THEN b
  ELSE IF a[1] = 0 THEN b
  ELSE IF b[1] = 0 THEN a
  ELSE LET hi == IF a[2] >= b[2] THEN a ELSE b
           lo == IF a[2] >= b[2] THEN b ELSE a
           d  == hi[2] - lo[2]
       IN  IF d > 9 THEN hi
           ELSE Norm(hi[1] * 10 + ShiftR(lo[1] * 10, d), hi[2] - 1)

FSub(a, b) == FAdd(a, FNeg(b))

FMul(a, b) ==
  IF IsNaN(a) \/ IsNaN(b) THEN NaN
  ELSE IF IsInf(a) \/ IsInf(b)
       THEN (IF a[1] = 0 \/ b[1] = 0 THEN NaN
             ELSE IF ISgn(a[1]) = ISgn(b[1]) THEN PInf ELSE NInf)
  ELSE IF a[1] = 0 \/ b[1] = 0 THEN Zero
  ELSE LET ma == IAbs(a[1])
           mb == IAbs(b[1])
           a1 == ma \div 10000
           a0 == ma % 10000
           b1 == mb \div 10000
           b0 == mb % 10000
           \* ma * mb / 10^7, from the partial products
           t  == a1 * b1 * 10 + ShiftR(a1 * b0 + a0 * b1 + ShiftR(a0 * b0, 4), 3)
       IN  Norm(ISgn(a[1]) * ISgn(b[1]) * t, a[2] + b[2] + 7)

\* n more quotient digits of r / mb appended to q (long division)
RECURSIVE DivDigits(_, _, _, _)
DivDigits(r, mb, q, n) ==
  IF n = 0 THEN q + (IF 2 * (r \div 10) >= mb THEN 1 ELSE 0)
  ELSE DivDigits((r % mb) * 10, mb, q * 10 + (r \div mb), n - 1)

FDiv(a, b) ==
  IF IsNaN(a) \/ IsNaN(b) THEN NaN
  ELSE IF IsInf(a)
       THEN (IF IsInf(b) THEN NaN
             ELSE IF ISgn(a[1]) * (IF b[1] < 0 THEN -1 ELSE 1) > 0 THEN PInf ELSE NInf)
  ELSE IF IsInf(b) THEN Zero
  ELSE IF b[1] = 0
       THEN (IF a[1] = 0 THEN NaN ELSE IF a[1] > 0 THEN PInf ELSE NInf)
  ELSE IF a[1] = 0 THEN Zero
  ELSE Norm(ISgn(a[1]) * ISgn(b[1]) * DivDigits(IAbs(a[1]), IAbs(b[1]), 0, 9),
            a[2] - b[2] - 8)

\* a < b, a > b as IEEE compares: false when either side is NaN
FLt(a, b) ==
  IF IsNaN(a) \/ IsNaN(b) THEN FALSE
  ELSE IF a = b THEN FALSE
  ELSE IF IsInf(a) THEN a[1] < 0
  ELSE IF IsInf(b) THEN b[1] > 0
  ELSE IF ISgn(a[1]) # ISgn(b[1]) THEN a[1] < b[1]
  ELSE IF a[1] = 0 THEN FALSE
  ELSE IF a[2] # b[2] THEN (IF a[1] > 0 THEN a[2] < b[2] ELSE a[2] > b[2])
  ELSE a[1] < b[1]

FGt(a, b) == FLt(b, a)
FLe(a, b) == ~IsNaN(a) /\ ~IsNaN(b) /\ ~FLt(b, a)

(***************************************************************************)
(* double: sqrt, sin, cos, atan2 of <cmath>                                *)
(***************************************************************************)
\* floor(sqrt(n)) to within 1 for 10^7 <= n < 10^9, by Newton's iteration
ISqrtStep(n, y) == (y + n \div y) \div 2
ISqrt(n) ==
  LET y0 == IF n < 100000000 THEN 5600 ELSE 17800
  IN  ISqrtStep(n, ISqrtStep(n, ISqrtStep(n, ISqrtStep(n, ISqrtStep(n, y0)))))

\* sqrt(m2) * 10^4 = y*10^4 + c - c^2 / (2 y 10^4), c = (m2 - y^2) 10^4 / 2y
SqrtRefine(y, r, c) == y * 10000 + ISgn(r) * c - (c * c) \div (2 * y * 10000)
SqrtResidual(y, r) == SqrtRefine(y, r, (IAbs(r) * 10000) \div (2 * y))
SqrtMantissa(m2, y) == SqrtResidual(y, m2 - y * y)

FSqrt(a) ==
  IF IsNaN(a) THEN NaN
  ELSE IF a[1] < 0 THEN NaN
  ELSE IF IsInf(a) THEN PInf
  ELSE IF a[1] = 0 THEN Zero
  ELSE IF a[2] % 2 = 1
       THEN Norm(SqrtMantissa(a[1] * 10, ISqrt(a[1] * 10)), ((a[2] - 1) \div 2) - 4)
       ELSE Norm(SqrtMantissa(a[1], ISqrt(a[1])), (a[2] \div 2) - 4)

M_PI   == <<31415927, -7>>
TwoPi  == <<62831853, -7>>
HalfPi == <<15707963, -7>>
SixthPi == <<52359878, -8>>
Sqrt3  == <<17320508, -7>>

\* the integer nearest to a finite double below 10^9 in magnitude
ToInt(a) ==
  IF a[1] = 0 THEN 0
  ELSE IF a[2] >= 0 THEN a[1] * Pow10[a[2] + 1]
  ELSE IF a[2] < -9 THEN 0
  ELSE ShiftR(a[1], -a[2])

\* x reduced to [-pi, pi] by a multiple of 2 pi
Reduce(x) ==
  IF FLe(FAbs(x), M_PI) THEN x
  ELSE FSub(x, FMul(FromInt(ToInt(FDiv(x, TwoPi))), TwoPi))

\* c[k] + u (c[k+1] + u (c[k+2] + ...)), evaluated from the innermost term out
RECURSIVE Horner(_, _, _, _)
Horner(c, u, k, acc) ==
  IF k = 0 \/ IsNaN(acc) THEN acc ELSE Horner(c, u, k - 1, FAdd(FMul(acc, u), c[k]))

\* Taylor polynomials on [-pi/2, pi/2]
SinCoeffs == << <<10000000, -7>>, <<-16666667, -8>>, <<83333333, -10>>, <<-19841270, -11>>,
                <<27557319, -13>>, <<-25052108, -15>>, <<16059044, -17>> >>
CosCoeffs == << <<10000000, -7>>, <<-50000000, -8>>, <<41666667, -9>>, <<-13888889, -10>>,
                <<24801587, -12>>, <<-27557319, -14>>, <<20876757, -16>>, <<-11470746, -18>> >>
SinPoly(r) == FMul(r, Horner(SinCoeffs, FMul(r, r), 6, SinCoeffs[7]))
CosPoly(r) == Horner(CosCoeffs, FMul(r, r), 7, CosCoeffs[8])

\* sin r = sin(pi - r) = sin(-pi - r): r brought into [-pi/2, pi/2]
FoldSin(r) ==
  IF FGt(r, HalfPi) THEN FSub(M_PI, r)
  ELSE IF FLt(r, FNeg(HalfPi)) THEN FSub(FNeg(M_PI), r)
  ELSE r

FSin(x) ==
  IF ~IsFinite(x) THEN NaN
  ELSE IF x[2] > 1 THEN Zero
  ELSE SinPoly(FoldSin(Reduce(x)))

\* cos r for 0 <= r <= pi
CosFolded(r) ==
  IF FGt(r, HalfPi) THEN FNeg(CosPoly(FSub(M_PI, r))) ELSE CosPoly(r)

FCos(x) ==
  IF ~IsFinite(x) THEN NaN
  ELSE IF x[2] > 1 THEN <<10000000, -7>>
  ELSE CosFolded(FAbs(Reduce(x)))

\* atan(t) for 0 <= t <= 1: one argument reduction by pi/6, then the series
AtanCoeffs == << <<10000000, -7>>, <<-33333333, -8>>, <<20000000, -8>>, <<-14285714, -8>>,
                 <<11111111, -8>>, <<-90909091, -9>>, <<76923077, -9>>, <<-66666667, -9>> >>
AtanPoly(t) == FMul(t, Horner(AtanCoeffs, FMul(t, t), 7, AtanCoeffs[8]))

Atan01(t) ==
  IF FGt(t, <<26794919, -8>>)
  THEN FAdd(SixthPi, AtanPoly(FDiv(FSub(FMul(t, Sqrt3), <<10000000, -7>>),
                                   FAdd(Sqrt3, t))))
  ELSE AtanPoly(t)

\* atan(ay / ax) for ay, ax >= 0, in [0, pi/2]
AtanQuadrant(ay, ax) ==
  IF IsInf(ay) THEN (IF IsInf(ax) THEN FMul(HalfPi, <<50000000, -8>>) ELSE HalfPi)
  ELSE IF IsInf(ax) \/ FLe(ay, ax) THEN Atan01(FDiv(ay, ax))
  ELSE FSub(HalfPi, Atan01(FDiv(ax, ay)))

\* the angle a of the first quadrant moved to the quadrant of (x, y)
AtanPlace(y, x, a) ==
  IF x[1] < 0 THEN (IF y[1] < 0 THEN FNeg(FSub(M_PI, a)) ELSE FSub(M_PI, a))
  ELSE (IF y[1] < 0 THEN FNeg(a) ELSE a)

FAtan2(y, x) ==
  IF IsNaN(y) \/ IsNaN(x) THEN NaN
  ELSE IF y[1] = 0 /\ IsFinite(y)
       THEN (IF x[1] >= 0 THEN Zero ELSE M_PI)
  ELSE AtanPlace(y, x, AtanQuadrant(FAbs(y), FAbs(x)))

(***************************************************************************)
(* Eigen: VectorXd and MatrixXd are tuples (of rows), indexed from 0 as in *)
(* the source: v(i) is At(v, i) and M(r, c) is E(M, r, c).                 *)
(***************************************************************************)
At(v, i)   == v[i + 1]
E(M, r, c) == M[r + 1][c + 1]
Rows(M)    == Len(M)
Cols(M)    == Len(M[1])

\* the vector <<f(0), ..., f(n-1)>>, its entries computed once
Tab(n, f(_)) ==
  CASE n = 0  -> <<>>
    [] n = 1  -> <<f(0)>>
    [] n = 2  -> <<f(0), f(1)>>
    [] n = 3  -> <<f(0), f(1), f(2)>>
    [] n = 5  -> <<f(0), f(1), f(2), f(3), f(4)>>
    [] n = 7  -> <<f(0), f(1), f(2), f(3), f(4), f(5), f(6)>>
    [] n = 15 -> <<f(0), f(1), f(2), f(3), f(4), f(5), f(6), f(7),
                   f(8), f(9), f(10), f(11), f(12), f(13), f(14)>>

Mat(n, m, f(_, _)) == Tab(n, LAMBDA r : Tab(m, LAMBDA c : f(r, c)))

Col(M, c) == Tab(Rows(M), LAMBDA r : E(M, r, c))

\* acc + terms[k] + terms[k+1] + ..., added left to right (NaN absorbs)
RECURSIVE SumFrom(_, _, _)
SumFrom(acc, terms, k) ==
  IF k > Len(terms) \/ IsNaN(acc) THEN acc
  ELSE SumFrom(FAdd(acc, terms[k]), terms, k + 1)

\* a[1]*b[1] + a[2]*b[2] + ...
Dot(a, b) ==
  LET RECURSIVE Go(_, _)
      Go(acc, k) == IF k > Len(a) \/ IsNaN(acc) THEN acc
                    ELSE Go(FAdd(acc, FMul(a[k], b[k])), k + 1)
  IN  IF Len(a) = 0 THEN Zero ELSE Go(FMul(a[1], b[1]), 2)

Transpose(M) == Mat(Cols(M), Rows(M), LAMBDA r, c : E(M, c, r))
MatMul(A, B) ==
  LET Bt == Transpose(B)
  IN  Mat(Rows(A), Cols(B), LAMBDA r, c : Dot(At(A, r), At(Bt, c)))
MatVec(A, v) == Tab(Rows(A), LAMBDA r : Dot(At(A, r), v))
MatAdd(A, B) == Mat(Rows(A), Cols(A), LAMBDA r, c : FAdd(E(A, r, c), E(B, r, c)))
MatSub(A, B) == Mat(Rows(A), Cols(A), LAMBDA r, c : FSub(E(A, r, c), E(B, r, c)))
VecAdd(a, b) == Tab(Len(a), LAMBDA i : FAdd(At(a, i), At(b, i)))
VecSub(a, b) == Tab(Len(a), LAMBDA i : FSub(At(a, i), At(b, i)))
Identity(n)  == Mat(n, n, LAMBDA r, c : IF r = c THEN FromInt(1) ELSE Zero)

\* LLT<MatrixXd>::compute, the unblocked in-place factorization of the lower
\* triangle: column k is finished at step k; a pivot x <= 0 stops it there
\* and leaves the rest of the matrix as it was (info() = NumericalIssue).
\* ret is the failing column, or -1 (info() = Success).
RECURSIVE LltInplace(_, _)
LltInplace(mat, k) ==
  LET n == Rows(mat)
  IN  IF k = n THEN [mat |-> mat, ret |-> -1]
      ELSE LET A10 == SubSeq(At(mat, k), 1, k)
               x   == IF k > 0 THEN FSub(E(mat, k, k), Dot(A10, A10)) ELSE E(mat, k, k)
           IN  IF FLe(x, Zero) THEN [mat |-> mat, ret |-> k]
               ELSE LET sx == FSqrt(x)
                        A21(r) == IF k > 0
                                  THEN FSub(E(mat, r, k), Dot(SubSeq(At(mat, r), 1, k), A10))
                                  ELSE E(mat, r, k)
                    IN  LltInplace(
                          Mat(n, n, LAMBDA r, c :
                                IF c = k /\ r = k THEN sx
                                ELSE IF c = k /\ r > k THEN FDiv(A21(r), sx)
                                ELSE E(mat, r, c)),
                          k + 1)

\* llt().matrixL() assigned to a MatrixXd: the lower triangle, zeros above
MatrixL(mat) == Mat(Rows(mat), Cols(mat), LAMBDA r, c : IF c > r THEN Zero ELSE E(mat, r, c))

\* MatrixXd::inverse() of a dynamic-size matrix: PartialPivLU, then solve(I)
RECURSIVE ArgMaxFrom(_, _, _, _)
ArgMaxFrom(lu, k, i, best) ==
  IF i = Rows(lu) THEN best
  ELSE ArgMaxFrom(lu, k, i + 1,
                  IF FGt(FAbs(E(lu, i, k)), FAbs(E(lu, best, k))) THEN i ELSE best)

SwapRows(M, a, b) ==
  Tab(Len(M), LAMBDA r : IF r = a THEN At(M, b) ELSE IF r = b THEN At(M, a) ELSE At(M, r))

RECURSIVE UnblockedLu(_, _, _)
UnblockedLu(lu, p, k) ==
  LET n == Rows(lu)
  IN  IF k = n THEN [lu |-> lu, p |-> p]
      ELSE LET piv == ArgMaxFrom(lu, k, k + 1, k)
               nz  == ~IsZero(E(lu, piv, k))
               a   == IF nz THEN SwapRows(lu, k, piv) ELSE lu
               b   == Mat(n, n, LAMBDA r, c :
                            IF c = k /\ r > k /\ nz THEN FDiv(E(a, r, k), E(a, k, k))
                            ELSE E(a, r, c))
               d   == Mat(n, n, LAMBDA r, c :
                            IF r > k /\ c > k
                            THEN FSub(E(b, r, c), FMul(E(b, r, k), E(b, k, c)))
                            ELSE E(b, r, c))
           IN  UnblockedLu(d, SwapRows(p, k, piv), k + 1)

\* L y = b with L unit lower triangular, then U x = y
RECURSIVE SolveL(_, _, _)
SolveL(lu, b, y) ==
  LET i == Len(y)
  IN  IF i = Len(b) THEN y
      ELSE SolveL(lu, b,
                  Append(y, SumFrom(At(b, i),
                                    Tab(i, LAMBDA j : FNeg(FMul(E(lu, i, j), At(y, j)))), 1)))

RECURSIVE SolveU(_, _, _)
SolveU(lu, y, x) ==
  LET n == Len(y)
      i == n - Len(x) - 1
  IN  IF i < 0 THEN x
      ELSE SolveU(lu, y,
                  <<FDiv(SumFrom(At(y, i),
                                 Tab(Len(x), LAMBDA j : FNeg(FMul(E(lu, i, i + 1 + j), At(x, j)))), 1),
                         E(lu, i, i))>> \o x)

\* column c of the inverse: the solution of (P^-1 L U) x = e_c
LuSolveColumn(f, n, c) ==
  SolveU(f.lu, SolveL(f.lu, Tab(n, LAMBDA r : IF At(f.p, r) = c THEN FromInt(1) ELSE Zero), <<>>), <<>>)

LuInverse(f, n) == Transpose(Tab(n, LAMBDA c : LuSolveColumn(f, n, c)))

Inverse(M) == LuInverse(UnblockedLu(M, Tab(Rows(M), LAMBDA r : r), 0), Rows(M))

(***************************************************************************)
(* UKF: configuration set by the constructor                               *)
(***************************************************************************)
n_x_       == 5
n_aug_     == n_x_ + 2
n_z_radar_ == 3
\* lambda_ is a double member: 3 - n_aug_ converted on assignment
lambda_    == FromInt(3 - n_aug_)

std_a_      == Dec(63, 2)
std_yawdd_  == Dec(12, 1)
std_laspx_  == Dec(225, 4)
std_laspy_  == Dec(225, 4)
std_radr_   == Dec(9, 1)
std_radphi_ == Dec(5, 3)
std_radrd_  == Dec(5, 1)

One == FromInt(1)
Two == FromInt(2)
Half == Dec(5, 1)

Q_Init == <<<<FMul(std_a_, std_a_), Zero>>,
            <<Zero, FMul(std_yawdd_, std_yawdd_)>>>>

P_Init == <<<<One, Zero, Zero, Zero, Zero>>,
            <<Zero, One, Zero, Zero, Zero>>,
            <<Zero, Zero, FromInt(1000), Zero, Zero>>,
            <<Zero, Zero, Zero, FromInt(100), Zero>>,
            <<Zero, Zero, Zero, Zero, One>>>>

H_laser_Init == <<<<One, Zero, Zero, Zero, Zero>>,
                  <<Zero, One, Zero, Zero, Zero>>>>

R_laser_Init == <<<<std_laspx_, Zero>>,
                  <<Zero, std_laspy_>>>>

R_radar_Init == <<<<FMul(std_radr_, std_radr_), Zero, Zero>>,
                  <<Zero, FMul(std_radphi_, std_radphi_), Zero>>,
                  <<Zero, Zero, FMul(std_radrd_, std_radrd_)>>>>

\* the slip of filling all of weights_, entry 0 included, with one value
WeightsAllEqual ==
  Tab(2 * n_aug_ + 1, LAMBDA i : FDiv(Half, FAdd(FromInt(n_aug_), lambda_)))

\* weights_.segment(1, 2 n_aug_).fill(0.5 / (n_aug_ + lambda_));
\* weights_(0) = lambda_ / (lambda_ + n_aug_)
WeightsInit ==
  Tab(2 * n_aug_ + 1, LAMBDA i :
        IF i = 0 THEN FDiv(lambda_, FAdd(lambda_, FromInt(n_aug_)))
        ELSE FDiv(Half, FAdd(FromInt(n_aug_), lambda_)))

\* P_aug.topLeftCorner(n_x_, n_x_) = P; P_aug.bottomRightCorner(2, 2) = Q:
\* the two corner blocks are assigned, every other entry keeps what it held
AssignCorners(P_aug_old, P, Q) ==
  Mat(n_aug_, n_aug_, LAMBDA r, c :
        IF r < n_x_ /\ c < n_x_ THEN E(P, r, c)
        ELSE IF r >= n_x_ /\ c >= n_x_ THEN E(Q, r - n_x_, c - n_x_)
        ELSE E(P_aug_old, r, c))

\* MatrixXd(n, m), VectorXd(n): storage allocated, coefficients not set
Uninit(n, m, g) == Mat(n, m, LAMBDA r, c : g)
UninitVec(n, g) == Tab(n, LAMBDA i : g)

(***************************************************************************)
(* UKF::Prediction                                                         *)
(***************************************************************************)
\* while (d > M_PI) d -= 2. * M_PI;  while (d < -M_PI) d += 2. * M_PI;
\* LoopAbove(j, d) is the first loop stopped after at most 2^j iterations, and
\* WhileAbove(d) the loop run until its condition fails; likewise below.
RECURSIVE LoopAbove(_, _)
LoopAbove(j, d) ==
  IF ~FGt(d, M_PI) THEN d
  ELSE IF j = 0 THEN FSub(d, FMul(Two, M_PI))
  ELSE LoopAbove(j - 1, LoopAbove(j - 1, d))
RECURSIVE WhileAbove(_)
WhileAbove(d) == IF FGt(d, M_PI) THEN WhileAbove(LoopAbove(8, d)) ELSE d

RECURSIVE LoopBelow(_, _)
LoopBelow(j, d) ==
  IF ~FLt(d, FNeg(M_PI)) THEN d
  ELSE IF j = 0 THEN FAdd(d, FMul(Two, M_PI))
  ELSE LoopBelow(j - 1, LoopBelow(j - 1, d))
RECURSIVE WhileBelow(_)
WhileBelow(d) == IF FLt(d, FNeg(M_PI)) THEN WhileBelow(LoopBelow(8, d)) ELSE d

AngleNormalization(d) == WhileBelow(WhileAbove(d))

\* Xsig_.colwise() = x_aug; the two blocks += offset and -= offset
SigmaPoints(x_aug_v, offset) ==
  Mat(n_aug_, 2 * n_aug_ + 1, LAMBDA r, i :
        IF i = 0 THEN At(x_aug_v, r)
        ELSE IF i <= n_aug_ THEN FAdd(At(x_aug_v, r), E(offset, r, i - 1))
        ELSE FSub(At(x_aug_v, r), E(offset, r, i - n_aug_ - 1)))

\* one column of Xsig_ through the CTRV process model
PredictSigmaPoint(s, delta_t) ==
  LET p_x == At(s, 0)
      p_y == At(s, 1)
      v   == At(s, 2)
      yaw == At(s, 3)
      yawd == At(s, 4)
      nu_a == At(s, 5)
      nu_yawdd == At(s, 6)
      curved == FGt(FAbs(yawd), Dec(1, 3))
  IN  << FAdd(IF curved
              THEN FAdd(p_x, FMul(FDiv(v, yawd),
                                  FSub(FSin(FAdd(yaw, FMul(yawd, delta_t))), FSin(yaw))))
              ELSE FAdd(p_x, FMul(FMul(v, delta_t), FCos(yaw))),
              FMul(FMul(FMul(FMul(Half, nu_a), delta_t), delta_t), FCos(yaw))),
         FAdd(IF curved
              THEN FAdd(p_y, FMul(FDiv(v, yawd),
                                  FSub(FCos(yaw), FCos(FAdd(yaw, FMul(yawd, delta_t))))))
              ELSE FAdd(p_y, FMul(FMul(v, delta_t), FSin(yaw))),
              FMul(FMul(FMul(FMul(Half, nu_a), delta_t), delta_t), FSin(yaw))),
         FAdd(v, FMul(nu_a, delta_t)),
         FAdd(FAdd(yaw, FMul(yawd, delta_t)),
              FMul(FMul(FMul(Half, nu_yawdd), delta_t), delta_t)),
         FAdd(yawd, FMul(nu_yawdd, delta_t)) >>

\* x.fill(0); x = x + weights_(i) * cols(i), i = 0 .. 2 n_aug_
WeightedMean(w, cols) ==
  Tab(Len(cols[1]), LAMBDA r :
        SumFrom(Zero, Tab(2 * n_aug_ + 1, LAMBDA i : FMul(At(w, i), At(At(cols, i), r))), 1))

\* M.fill(0); M = M + weights_(i) * a_i * b_i.transpose()
WeightedOuter(w, as, bs) ==
  Mat(Len(as[1]), Len(bs[1]), LAMBDA r, c :
        SumFrom(Zero,
                Tab(2 * n_aug_ + 1, LAMBDA i :
                      FMul(FMul(At(w, i), At(At(as, i), r)), At(At(bs, i), c))), 1))

\* a state residual with its heading component normalized
NormalizeHeading(d) == <<At(d, 0), At(d, 1), At(d, 2), AngleNormalization(At(d, 3)), At(d, 4)>>

\* Xsig_pred_.col(i) - x_, normalized, for every column
StateDiff(pcols, x) ==
  Tab(2 * n_aug_ + 1, LAMBDA i : NormalizeHeading(VecSub(At(pcols, i), x)))

\* x_aug << x_.array(), 0, 0 and the two corner assignments of P_aug
Augment(x, P, P_aug_old, Q) ==
  [x_aug |-> <<At(x, 0), At(x, 1), At(x, 2), At(x, 3), At(x, 4), Zero, Zero>>,
   P_aug |-> AssignCorners(P_aug_old, P, Q)]

\* MatrixXd A = P_aug.llt().matrixL(): llt()'s info() is never read, the
\* factor is used whatever it holds
Factorize(s, llt) == [llt_ret |-> llt.ret, A |-> MatrixL(llt.mat)] @@ s

\* Xsig_ from x_aug and offset = A * sqrt(lambda_ + n_aug_)
GenerateSigmaPoints(s) ==
  [Xsig |-> SigmaPoints(s.x_aug,
                        Mat(n_aug_, n_aug_, LAMBDA r, c :
                              FMul(E(s.A, r, c), FSqrt(FAdd(lambda_, FromInt(n_aug_))))))] @@ s

\* the loop over the columns of Xsig_ that fills Xsig_pred_
PredictSigmaPoints(s, delta_t) ==
  [pcols |-> Tab(2 * n_aug_ + 1, LAMBDA i : PredictSigmaPoint(Col(s.Xsig, i), delta_t))] @@ s

PredictMean(s, w) == [x |-> WeightedMean(w, s.pcols)] @@ s

PredictCovariance(s, w, xd) ==
  [op |-> "Prediction", P |-> WeightedOuter(w, xd, xd), Xsig_pred |-> Transpose(s.pcols)] @@ s

\* the predicted covariance about the mean s.x
PredictAbout(s, w) == PredictCovariance(s, w, StateDiff(s.pcols, s.x))

\* the factorization step on the augmented covariance s.P_aug
FactorizeAugmented(s) == Factorize(s, LltInplace(s.P_aug, 0))

\* Prediction(delta_t) on the members x_, P_, P_aug, weights_; Q is Q_
Prediction(x, P, P_aug_old, w, Q, delta_t) ==
  PredictAbout(
    PredictMean(
      PredictSigmaPoints(
        GenerateSigmaPoints(FactorizeAugmented(Augment(x, P, P_aug_old, Q))),
        delta_t),
      w),
    w)

(***************************************************************************)
(* UKF::UpdateLidar                                                        *)
(***************************************************************************)
\* z_pred, z_diff, S and Si
LidarInnovation(x, P, H, R, z) ==
  [z_pred |-> MatVec(H, x),
   z_diff |-> VecSub(z, MatVec(H, x)),
   S      |-> MatAdd(MatMul(MatMul(H, P), Transpose(H)), R),
   R      |-> R]

LidarGain(s, P, H, Si) ==
  [Si |-> Si, K |-> MatMul(MatMul(P, Transpose(H)), Si)] @@ s

LidarEstimate(s, x, P, H) ==
  [op  |-> "UpdateLidar",
   x   |-> VecAdd(x, MatVec(s.K, s.z_diff)),
   P   |-> MatMul(MatSub(Identity(Len(x)), MatMul(s.K, H)), P),
   NIS |-> Dot(MatVec(Transpose(s.Si), s.z_diff), s.z_diff)] @@ s

LidarInverse(s, P, H) == LidarGain(s, P, H, Inverse(s.S))

UpdateLidar(x, P, H, R, z) ==
  LidarEstimate(LidarInverse(LidarInnovation(x, P, H, R, z), P, H), x, P, H)

(***************************************************************************)
(* UKF::UpdateRadar                                                        *)
(***************************************************************************)
\* the slip of leaving the three tests out
NanKept(v) == v

\* if (v != v) v = 0;
NanToZero(v) == IF IsNaN(v) THEN Zero ELSE v

\* rho_dot = (p_x * v_y + p_y * v_x) / rho
RadialVelocity(p_x, p_y, v_y, v_x, rho) ==
  FDiv(FAdd(FMul(p_x, v_y), FMul(p_y, v_x)), rho)

\* the measurement model on one column of Xsig_pred_, before the NaN tests
RadarModel(s) ==
  LET p_x == At(s, 0)
      p_y == At(s, 1)
      v   == At(s, 2)
      yaw == At(s, 3)
  IN  <<FSqrt(FAdd(FMul(p_x, p_x), FMul(p_y, p_y))),
        FAtan2(p_y, p_x),
        RadialVelocity(p_x, p_y, FMul(FCos(yaw), v), FMul(FSin(yaw), v),
                       FSqrt(FAdd(FMul(p_x, p_x), FMul(p_y, p_y))))>>

\* a measurement residual with its bearing component normalized
NormalizeBearing(d) == <<At(d, 0), AngleNormalization(At(d, 1)), At(d, 2)>>

\* z_i - z_pred, normalized, for every column
MeasDiff(zcols, z_pred) ==
  Tab(Len(zcols), LAMBDA i : NormalizeBearing(VecSub(At(zcols, i), z_pred)))

\* the three tests rho != rho, phi != phi, rho_dot != rho_dot on a column
GuardColumn(c) == <<NanToZero(At(c, 0)), NanToZero(At(c, 1)), NanToZero(At(c, 2))>>

\* the loop that fills Zsig_
RadarSigmaPoints(Xsig_pred) ==
  [pcols |-> Transpose(Xsig_pred),
   raw   |-> Tab(2 * n_aug_ + 1, LAMBDA i : RadarModel(Col(Xsig_pred, i)))]

RadarGuarded(s) == [zcols |-> Tab(2 * n_aug_ + 1, LAMBDA i : GuardColumn(At(s.raw, i)))] @@ s

RadarMean(s, w) == [z_pred |-> WeightedMean(w, s.zcols)] @@ s

RadarCovariances(s, x, w, R, zd) ==
  [S  |-> MatAdd(WeightedOuter(w, zd, zd), R),
   Tc |-> WeightedOuter(w, StateDiff(s.pcols, x), zd)] @@ s

RadarResiduals(s, x, w, R) == RadarCovariances(s, x, w, R, MeasDiff(s.zcols, s.z_pred))

RadarGain(s, Si, z) ==
  [K |-> MatMul(s.Tc, Si), Si |-> Si,
   z_diff |-> NormalizeBearing(VecSub(z, s.z_pred))] @@ s

RadarInverse(s, z) == RadarGain(s, Inverse(s.S), z)

RadarEstimate(s, x, P) ==
  [op   |-> "UpdateRadar",
   x    |-> VecAdd(x, MatVec(s.K, s.z_diff)),
   P    |-> MatSub(P, MatMul(MatMul(s.K, s.S), Transpose(s.K))),
   NIS  |-> Dot(MatVec(Transpose(s.Si), s.z_diff), s.z_diff),
   Zsig |-> Transpose(s.zcols)] @@ s

UpdateRadar(x, P, Xsig_pred, w, R, z) ==
  RadarEstimate(
    RadarInverse(RadarResiduals(RadarMean(RadarGuarded(RadarSigmaPoints(Xsig_pred)), w), x, w, R), z),
    x, P)

(***************************************************************************)
(* State of a UKF object and of its caller                                 *)
(***************************************************************************)
VARIABLES
  is_initialized_, previous_timestamp_, x_, P_, x_aug, P_aug, weights_,
  Xsig_, Xsig_pred_, Zsig_, Q_, H_laser_, R_laser_, R_radar_,
  NIS_laser_, NIS_radar_,
  n_calls,   \* ProcessMeasurement calls made so far
  last       \* what the latest ProcessMeasurement call did

vars == <<is_initialized_, previous_timestamp_, x_, P_, x_aug, P_aug, weights_,
          Xsig_, Xsig_pred_, Zsig_, Q_, H_laser_, R_laser_, R_radar_,
          NIS_laser_, NIS_radar_, n_calls, last>>

MaxCalls == 2

\* values an unassigned coefficient may hold, and an unassigned timestamp
Garbage      == {Zero, Dec(1, 1), One, NaN}
GarbageTimes == {0, 77}

\* measurements the caller hands to ProcessMeasurement
LaserRaw == { <<One, One>>, <<Zero, Zero>>, <<Dec(11, 1), One>> }
RadarRaw == { <<Dec(15, 1), Dec(8, 1), Dec(2, 1)>>, <<Zero, Zero, Zero>>,
              <<Two, Dec(313, 2), Dec(-1, 1)>> }
Timestamps == {0, 100000}
Measurements ==
  [sensor_type_ : {"LASER"}, raw_measurements_ : LaserRaw, timestamp_ : Timestamps]
  \cup [sensor_type_ : {"RADAR"}, raw_measurements_ : RadarRaw, timestamp_ : Timestamps]

NoCall == [calls |-> <<>>, meas |-> <<>>, prev |-> 0, dt |-> Zero,
           x_prior |-> <<>>, P_prior |-> <<>>, P_aug_in |-> <<>>, llt_ret |-> -1,
           x_pred |-> <<>>, P_pred |-> <<>>, raw |-> <<>>, z_pred |-> <<>>,
           S |-> <<>>, K |-> <<>>]

\* UKF::UKF(): the members after construction, the unassigned ones holding g
\* and the unassigned timestamp t
Constructed(g, t) ==
  /\ is_initialized_ = FALSE
  /\ previous_timestamp_ = t
  /\ x_ = UninitVec(n_x_, g)
  /\ x_aug = UninitVec(n_aug_, g)
  /\ Q_ = Q_Init
  /\ P_ = P_Init
  /\ P_aug = AssignCorners(Uninit(n_aug_, n_aug_, g), P_Init, Q_Init)
  /\ weights_ = WeightsInit
  /\ Xsig_ = Uninit(n_aug_, 2 * n_aug_ + 1, g)
  /\ Xsig_pred_ = Uninit(n_x_, 2 * n_aug_ + 1, g)
  /\ Zsig_ = Uninit(n_z_radar_, 2 * n_aug_ + 1, g)
  /\ H_laser_ = H_laser_Init
  /\ R_laser_ = R_laser_Init
  /\ R_radar_ = R_radar_Init
  /\ NIS_laser_ = g
  /\ NIS_radar_ = g

Init ==
  \E g \in Garbage, t \in GarbageTimes :
    /\ Constructed(g, t)
    /\ n_calls = 0
    /\ last = NoCall

\* the guard of the radar branch: a component below 0.0001 in magnitude
\* becomes 1 and its variance 1000
GuardOrigin(px, py, P) ==
  [x |-> <<IF FLt(FAbs(px), Dec(1, 4)) THEN One ELSE px,
           IF FLt(FAbs(py), Dec(1, 4)) THEN One ELSE py, Zero, Zero, Zero>>,
   P |-> Mat(n_x_, n_x_, LAMBDA r, c :
               IF r = 0 /\ c = 0 /\ FLt(FAbs(px), Dec(1, 4)) THEN FromInt(1000)
               ELSE IF r = 1 /\ c = 1 /\ FLt(FAbs(py), Dec(1, 4)) THEN FromInt(1000)
               ELSE E(P, r, c))]

\* the slip of exchanging sin and cos in the polar-to-cartesian conversion
FirstMeasurementSwapped(m, P) ==
  IF m.sensor_type_ = "RADAR"
  THEN GuardOrigin(FMul(At(m.raw_measurements_, 0), FSin(At(m.raw_measurements_, 1))),
                   FMul(At(m.raw_measurements_, 0), FCos(At(m.raw_measurements_, 1))), P)
  ELSE [x |-> <<At(m.raw_measurements_, 0), At(m.raw_measurements_, 1), Zero, Zero, Zero>>,
        P |-> P]

\* the first-measurement branch of ProcessMeasurement: the new x_ and P_
FirstMeasurement(m, P) ==
  IF m.sensor_type_ = "RADAR"
  THEN GuardOrigin(FMul(At(m.raw_measurements_, 0), FCos(At(m.raw_measurements_, 1))),
                   FMul(At(m.raw_measurements_, 0), FSin(At(m.raw_measurements_, 1))), P)
  ELSE IF m.sensor_type_ = "LASER"
  THEN [x |-> <<At(m.raw_measurements_, 0), At(m.raw_measurements_, 1), Zero, Zero, Zero>>,
        P |-> P]
  ELSE [x |-> <<Zero, Zero, Zero, Zero, Zero>>, P |-> P]

\* the slip of taking the timestamps for milliseconds
DeltaTMillis(timestamp, previous) == FDiv(FromInt(timestamp - previous), FromInt(1000))

\* double dt = (timestamp_ - previous_timestamp_) / 1000000.0
DeltaT(timestamp, previous) == FDiv(FromInt(timestamp - previous), FromInt(1000000))

\* the members assigned by the first call, and the record of what it did
Initialized(m, prev, x, P, f) ==
  [first |-> TRUE, x |-> f.x, P |-> f.P,
   x_aug |-> <<At(f.x, 0), At(f.x, 1), At(f.x, 2), At(f.x, 3), At(f.x, 4), Zero, Zero>>,
   log |-> [calls |-> <<"Initialize">>, meas |-> m, prev |-> prev, dt |-> Zero,
            x_prior |-> x, P_prior |-> P, P_aug_in |-> <<>>, llt_ret |-> -1,
            x_pred |-> <<>>, P_pred |-> <<>>, raw |-> <<>>, z_pred |-> <<>>,
            S |-> <<>>, K |-> <<>>]]

\* the members assigned by a later call: p is what Prediction computed and
\* u what the update that ran computed
Updated(m, prev, x, P, dt, p, u) ==
  [first |-> FALSE, x |-> u.x, P |-> u.P, x_aug |-> p.x_aug, P_aug |-> p.P_aug,
   Xsig |-> p.Xsig, Xsig_pred |-> p.Xsig_pred, radar |-> u.op = "UpdateRadar",
   Zsig |-> IF u.op = "UpdateRadar" THEN u.Zsig ELSE <<>>, NIS |-> u.NIS,
   log |-> [calls |-> <<p.op, u.op>>,
            meas |-> m, prev |-> prev, dt |-> dt,
            x_prior |-> x, P_prior |-> P, P_aug_in |-> p.P_aug,
            llt_ret |-> p.llt_ret, x_pred |-> p.x, P_pred |-> p.P,
            raw |-> IF u.op = "UpdateRadar" THEN u.raw ELSE <<>>,
            z_pred |-> u.z_pred, S |-> u.S, K |-> u.K]]

\* Prediction, then the update chosen by the sensor type
PredictThenUpdate(m, prev, x, P, w, H, R_l, R_r, dt, p) ==
  Updated(m, prev, x, P, dt, p,
          IF m.sensor_type_ = "RADAR"
          THEN UpdateRadar(p.x, p.P, p.Xsig_pred, w, R_r, m.raw_measurements_)
          ELSE UpdateLidar(p.x, p.P, H, R_l, m.raw_measurements_))

\* what one call of ProcessMeasurement computes
CallResult(m, init, prev, x, P, P_aug_old, w, Q, H, R_l, R_r) ==
  IF ~init
  THEN Initialized(m, prev, x, P, FirstMeasurement(m, P))
  ELSE PredictThenUpdate(m, prev, x, P, w, H, R_l, R_r, DeltaT(m.timestamp_, prev),
                         Prediction(x, P, P_aug_old, w, Q, DeltaT(m.timestamp_, prev)))

\* UKF::ProcessMeasurement(measurement_pack)
ProcessMeasurement(m) ==
  /\ n_calls < MaxCalls
  /\ n_calls' = n_calls + 1
  /\ UNCHANGED <<weights_, Q_, H_laser_, R_laser_, R_radar_>>
  /\ \E c \in {CallResult(m, is_initialized_, previous_timestamp_, x_, P_, P_aug,
                          weights_, Q_, H_laser_, R_laser_, R_radar_)} :
       /\ previous_timestamp_' = m.timestamp_
       /\ x_' = c.x
       /\ P_' = c.P
       /\ x_aug' = c.x_aug
       /\ last' = c.log
       /\ IF c.first
          THEN /\ is_initialized_' = TRUE
               /\ UNCHANGED <<P_aug, Xsig_, Xsig_pred_, Zsig_, NIS_laser_, NIS_radar_>>
          ELSE /\ UNCHANGED is_initialized_
               /\ P_aug' = c.P_aug
               /\ Xsig_' = c.Xsig
               /\ Xsig_pred_' = c.Xsig_pred
               /\ Zsig_' = IF c.radar THEN c.Zsig ELSE Zsig_
               /\ NIS_radar_' = IF c.radar THEN c.NIS ELSE NIS_radar_
               /\ NIS_laser_' = IF c.radar THEN NIS_laser_ ELSE c.NIS

Next == \E m \in Measurements : ProcessMeasurement(m)

Spec == Init /\ [][Next]_vars

(***************************************************************************)
(* The angle normalization on its own: a residual d is drawn and the two   *)
(* loops are run on it; last holds the residual and what the loops return. *)
(***************************************************************************)
MaxTenths == 70

\* residuals between -7 and 7 in steps of 0.1, the multiples of M_PI, and
\* the difference of the bearings 3.13 and -3.13 either way round
Residuals ==
  {Dec(k, 1) : k \in -MaxTenths .. MaxTenths}
  \cup {FMul(FromInt(k), M_PI) : k \in -3 .. 3}
  \cup {FSub(Dec(-313, 2), Dec(313, 2)), FSub(Dec(313, 2), Dec(-313, 2))}

InitNorm ==
  \E d \in Residuals :
    /\ Constructed(Zero, 0)
    /\ n_calls = 0
    /\ last = [calls |-> <<>>, d |-> d, r |-> <<>>]

Normalize ==
  /\ last.calls = <<>>
  /\ last' = [calls |-> <<"AngleNormalization">>, d |-> last.d,
              r |-> AngleNormalization(last.d)]
  /\ UNCHANGED <<is_initialized_, previous_timestamp_, x_, P_, x_aug, P_aug, weights_,
                 Xsig_, Xsig_pred_, Zsig_, Q_, H_laser_, R_laser_, R_radar_,
                 NIS_laser_, NIS_radar_, n_calls>>

NextNorm == Normalize

SpecNorm == InitNorm /\ [][NextNorm]_vars

(***************************************************************************)
(* Two filters run side by side on the same measurements: the one in the   *)
(* variables and a twin kept in last.twin, constructed alike except for    *)
(* what NIS_laser_ and NIS_radar_ hold.                                    *)
(***************************************************************************)
\* the members of the filter held in the variables, as one object
Members ==
  [is_initialized_ |-> is_initialized_, previous_timestamp_ |-> previous_timestamp_,
   x_ |-> x_, P_ |-> P_, x_aug |-> x_aug, P_aug |-> P_aug, weights_ |-> weights_,
   Xsig_ |-> Xsig_, Xsig_pred_ |-> Xsig_pred_, Zsig_ |-> Zsig_, Q_ |-> Q_,
   H_laser_ |-> H_laser_, R_laser_ |-> R_laser_, R_radar_ |-> R_radar_,
   NIS_laser_ |-> NIS_laser_, NIS_radar_ |-> NIS_radar_]

\* the members of filter f after a call that computed c
Assigned(f, m, c) ==
  [f EXCEPT !.is_initialized_ = TRUE,
            !.previous_timestamp_ = m.timestamp_,
            !.x_ = c.x, !.P_ = c.P, !.x_aug = c.x_aug,
            !.P_aug = IF c.first THEN @ ELSE c.P_aug,
            !.Xsig_ = IF c.first THEN @ ELSE c.Xsig,
            !.Xsig_pred_ = IF c.first THEN @ ELSE c.Xsig_pred,
            !.Zsig_ = IF ~c.first /\ c.radar THEN c.Zsig ELSE @,
            !.NIS_radar_ = IF ~c.first /\ c.radar THEN c.NIS ELSE @,
            !.NIS_laser_ = IF ~c.first /\ ~c.radar THEN c.NIS ELSE @]

\* the slip of an adaptive filter: the NIS of the last lidar update is added
\* to the lidar noise of the next
ProcessMeasurementAdaptive(m, f) ==
  Assigned(f, m,
           CallResult(m, f.is_initialized_, f.previous_timestamp_, f.x_, f.P_, f.P_aug,
                      f.weights_, f.Q_, f.H_laser_,
                      MatAdd(f.R_laser_, <<<<f.NIS_laser_, Zero>>, <<Zero, f.NIS_laser_>>>>),
                      f.R_radar_))

\* UKF::ProcessMeasurement(measurement_pack) called on filter f
ProcessMeasurementOn(m, f) ==
  Assigned(f, m,
           CallResult(m, f.is_initialized_, f.previous_timestamp_, f.x_, f.P_, f.P_aug,
                      f.weights_, f.Q_, f.H_laser_, f.R_laser_, f.R_radar_))

\* the measurements handed to the two filters
PairMeasurements ==
  {m \in Measurements :
     m.raw_measurements_ \in {<<One, One>>, <<Dec(15, 1), Dec(8, 1), Dec(2, 1)>>,
                              <<Zero, Zero, Zero>>}}

InitPair ==
  \E g \in Garbage :
    \E h \in Garbage \ {g} :
      /\ Constructed(g, 0)
      /\ n_calls = 0
      /\ last = [calls |-> <<>>, meas |-> <<>>, before |-> <<>>,
                 twin |-> [Members EXCEPT !.NIS_laser_ = h, !.NIS_radar_ = h]]

\* both filters process measurement m
ProcessPair(m) ==
  /\ n_calls < MaxCalls
  /\ n_calls' = n_calls + 1
  /\ \E f \in {ProcessMeasurementOn(m, Members)} :
       /\ is_initialized_' = f.is_initialized_
       /\ previous_timestamp_' = f.previous_timestamp_
       /\ x_' = f.x_
       /\ P_' = f.P_
       /\ x_aug' = f.x_aug
       /\ P_aug' = f.P_aug
       /\ weights_' = f.weights_
       /\ Xsig_' = f.Xsig_
       /\ Xsig_pred_' = f.Xsig_pred_
       /\ Zsig_' = f.Zsig_
       /\ Q_' = f.Q_
       /\ H_laser_' = f.H_laser_
       /\ R_laser_' = f.R_laser_
       /\ R_radar_' = f.R_radar_
       /\ NIS_laser_' = f.NIS_laser_
       /\ NIS_radar_' = f.NIS_radar_
  /\ last' = [calls |-> IF is_initialized_ THEN <<"Prediction", "Update">>
                        ELSE <<"Initialize">>,
              meas |-> m, before |-> last.twin,
              twin |-> ProcessMeasurementOn(m, last.twin)]

NextPair == \E m \in PairMeasurements : ProcessPair(m)

SpecPair == InitPair /\ [][NextPair]_vars

(***************************************************************************)
(* Properties                                                              *)
(***************************************************************************)
\* a and b agree to within a millionth of their size
Tol == Dec(1, 6)
Close(a, b)    == FLe(FAbs(FSub(a, b)), FMul(Tol, FAdd(One, FAdd(FAbs(a), FAbs(b)))))
CloseVec(a, b) == Len(a) = Len(b) /\ \A i \in 1 .. Len(a) : Close(a[i], b[i])
CloseMat(A, B) == Len(A) = Len(B) /\ \A i \in 1 .. Len(A) : CloseVec(A[i], B[i])
NoNaNVec(v)    == \A i \in 1 .. Len(v) : ~IsNaN(v[i])
NoNaNMat(M)    == \A i \in 1 .. Len(M) : NoNaNVec(M[i])
FiniteVec(v)   == \A i \in 1 .. Len(v) : IsFinite(v[i])
FiniteMat(M)   == \A i \in 1 .. Len(M) : FiniteVec(M[i])

\* the latest call was the initializing one / a predict-and-update cycle
JustInitialized == last.calls = <<"Initialize">>
JustCycled      == Len(last.calls) = 2
JustRadar       == JustCycled /\ last.calls[2] = "UpdateRadar"
JustLidar       == JustCycled /\ last.calls[2] = "UpdateLidar"

\* C1: every call after the first runs Prediction once and then one update,
\* UpdateRadar for a RADAR measurement and UpdateLidar for a LASER one, with
\* dt = (timestamp - previous_timestamp_) / 1e6, and leaves the measurement's
\* timestamp in previous_timestamp_.  A radar cycle leaves NIS_laser_ alone
\* and a lidar cycle leaves NIS_radar_ and Zsig_ alone.
C1_Cycle ==
  is_initialized_ =>
    /\ last'.calls = <<"Prediction",
                       IF last'.meas.sensor_type_ = "RADAR" THEN "UpdateRadar"
                       ELSE "UpdateLidar">>
    /\ last'.prev = previous_timestamp_
    /\ last'.dt = FDiv(FromInt(last'.meas.timestamp_ - previous_timestamp_),
                       FromInt(1000000))
    /\ previous_timestamp_' = last'.meas.timestamp_
    /\ last'.x_prior = x_ /\ last'.P_prior = P_
    /\ last'.meas.sensor_type_ = "RADAR" => NIS_laser_' = NIS_laser_
    /\ last'.meas.sensor_type_ = "LASER" => NIS_radar_' = NIS_radar_ /\ Zsig_' = Zsig_
C1_PredictThenUpdate == [][C1_Cycle]_vars

C1_Witness ==
  /\ JustRadar
  /\ last.meas.sensor_type_ = "RADAR"
  /\ last.dt = Dec(1, 1)
  /\ previous_timestamp_ = last.meas.timestamp_

\* the position a first measurement stands for: raw (x, y) for lidar,
\* (range cos bearing, range sin bearing) for radar
InitialPosition(m) ==
  IF m.sensor_type_ = "RADAR"
  THEN <<FMul(m.raw_measurements_[1], FCos(m.raw_measurements_[2])),
         FMul(m.raw_measurements_[1], FSin(m.raw_measurements_[2]))>>
  ELSE <<m.raw_measurements_[1], m.raw_measurements_[2]>>

IsSmall(c) == FLt(FAbs(c), Dec(1, 4))

\* C2 as amended: the first call, and only it, initializes.  It sets the mean
\* to (px, py, 0, 0, 0), (px, py) being the raw (x, y) of a lidar measurement
\* or (range cos bearing, range sin bearing) of a radar one, except that a
\* radar component below 1e-4 in magnitude is replaced by 1; it stores the
\* timestamp, sets is_initialized_ and runs neither Prediction nor an update.
\* Once initialized the filter stays so and never initializes again.
C2_First ==
  ~is_initialized_ =>
    /\ is_initialized_'
    /\ last'.calls = <<"Initialize">>
    /\ previous_timestamp_' = last'.meas.timestamp_
    /\ \E p \in {InitialPosition(last'.meas)} :
         x_' = <<IF last'.meas.sensor_type_ = "RADAR" /\ IsSmall(p[1]) THEN One ELSE p[1],
                 IF last'.meas.sensor_type_ = "RADAR" /\ IsSmall(p[2]) THEN One ELSE p[2],
                 Zero, Zero, Zero>>
    /\ UNCHANGED <<P_aug, Xsig_, Xsig_pred_, Zsig_, NIS_laser_, NIS_radar_>>
C2_Later ==
  is_initialized_ => is_initialized_' /\ last'.calls[1] = "Prediction"
C2_InitializesOnce == [][C2_First /\ C2_Later]_vars

C2_Witness ==
  /\ JustInitialized
  /\ is_initialized_
  /\ last.meas.sensor_type_ = "RADAR"
  /\ x_ = <<One, One, Zero, Zero, Zero>>

\* C2 as stated: after the initializing call the mean is (px, py, 0, 0, 0)
\* with (px, py) the raw (x, y) or (range cos bearing, range sin bearing).
C2_MeanIsMeasuredPosition ==
  JustInitialized =>
    /\ x_ = InitialPosition(last.meas) \o <<Zero, Zero, Zero>>
    /\ previous_timestamp_ = last.meas.timestamp_
    /\ is_initialized_

\* C3: after the initializing measurement, of either sensor type, a position
\* component below 1e-4 in magnitude has become 1.0 in the mean and its
\* diagonal entry of the covariance is 1000.
C3_GuardForEitherSensor ==
  JustInitialized =>
    \A i \in 1 .. 2 :
      IsSmall(InitialPosition(last.meas)[i]) =>
        x_[i] = One /\ P_[i][i] = FromInt(1000)

\* C4: when the factorization of the augmented covariance fails, Prediction
\* does not go on: the mean and the covariance it leaves are those it found.
C4_NoPredictionFromFailedFactor ==
  (JustCycled /\ last.llt_ret # -1) =>
    last.x_pred = last.x_prior /\ last.P_pred = last.P_prior

\* C5: a normalized residual lies in the half-open interval (-pi, pi], so it
\* is never -pi, and the residual of the bearings 3.13 and -3.13 is about 0.02.
C5_HalfOpenInterval ==
  last.calls = <<"AngleNormalization">> =>
    /\ FGt(last.r, FNeg(M_PI))
    /\ FLe(last.r, M_PI)
    /\ \E k \in -2 .. 2 : Close(last.r, FAdd(last.d, FMul(FromInt(k), FMul(Two, M_PI))))

BlockDiagonalIn ==
  \A r \in 1 .. n_aug_, c \in 1 .. n_aug_ :
    last.P_aug_in[r][c] =
      IF r <= n_x_ /\ c <= n_x_ THEN last.P_prior[r][c]
      ELSE IF r > n_x_ /\ c > n_x_ THEN Q_[r - n_x_][c - n_x_]
      ELSE Zero

\* C7: Prediction with delta_t = 0 leaves the mean and the covariance as they
\* were (every entry to within a millionth of its size), stated for the calls
\* whose augmented covariance is the block diagonal of P_ and Q_ and was
\* factorized without failure.
C7_ZeroDeltaTChangesNothing ==
  (JustCycled /\ IsZero(last.dt) /\ BlockDiagonalIn /\ last.llt_ret = -1) =>
    CloseVec(last.x_pred, last.x_prior) /\ CloseMat(last.P_pred, last.P_prior)

\* the sum of the entries of weights_, added from entry 0 up
WeightSum == SumFrom(Zero, weights_, 1)

\* C8 as amended: in every state weights_ has 15 entries, weights_(0) is the
\* double nearest -4/3 and every other entry the double nearest 1/6, and the
\* entries sum to 1 to within rounding; no call changes them.
C8_Weights ==
  /\ Len(weights_) = 15
  /\ weights_[1] = FDiv(FromInt(-4), FromInt(3))
  /\ \A i \in 2 .. 15 : weights_[i] = FDiv(One, FromInt(6))
  /\ Close(WeightSum, One)

C8_Witness ==
  /\ n_calls = MaxCalls
  /\ JustLidar
  /\ weights_[15] = FDiv(One, FromInt(6))

\* C8 as stated: the entries of weights_ sum to exactly 1.
C8_SumExactlyOne ==
  /\ Len(weights_) = 15
  /\ WeightSum = One

\* C9: the noise covariance UpdateLidar adds is the diagonal of the squares
\* of the lidar standard deviations.
C9_LidarNoiseIsVariance ==
  JustLidar =>
    R_laser_ = <<<<FMul(std_laspx_, std_laspx_), Zero>>,
                 <<Zero, FMul(std_laspy_, std_laspy_)>>>>

\* C10: the matrix Prediction hands to the factorization is block diagonal:
\* P_ top left, Q_ bottom right, 0 in every entry of the two other blocks.
C10_AugmentedCovarianceBlockDiagonal ==
  JustCycled => BlockDiagonalIn

\* the two filters agree on everything but the stored NIS values
TwinAgrees ==
  /\ x_ = last.twin.x_ /\ P_ = last.twin.P_
  /\ previous_timestamp_ = last.twin.previous_timestamp_
  /\ is_initialized_ = last.twin.is_initialized_

\* C11: the stored NIS values never feed back: two filters that differ only
\* in what NIS_laser_ and NIS_radar_ hold have the same mean, covariance and
\* previous timestamp after every call on the same measurements; and a call
\* writes at most the NIS of its measurement's sensor type: a radar call
\* leaves NIS_laser_ as it was, a lidar call leaves NIS_radar_ as it was and
\* the initializing call leaves both, in either filter.
C11_Call ==
  /\ TwinAgrees'
  /\ last'.meas.sensor_type_ = "RADAR" =>
       /\ NIS_laser_' = NIS_laser_
       /\ last'.twin.NIS_laser_ = last.twin.NIS_laser_
  /\ last'.meas.sensor_type_ = "LASER" =>
       /\ NIS_radar_' = NIS_radar_
       /\ last'.twin.NIS_radar_ = last.twin.NIS_radar_
  /\ ~is_initialized_ =>
       /\ NIS_laser_' = NIS_laser_ /\ NIS_radar_' = NIS_radar_
       /\ last'.twin.NIS_laser_ = last.twin.NIS_laser_
       /\ last'.twin.NIS_radar_ = last.twin.NIS_radar_
C11_NisNeverFeedsBack == [][C11_Call]_vars

\* after a lidar update the two filters hold the same mean and covariance
\* though their NIS_radar_ still differ, and each has stored the same new
\* NIS_laser_ over the differing ones it held before
C11_Witness ==
  /\ n_calls = MaxCalls
  /\ last.calls = <<"Prediction", "Update">>
  /\ last.meas.sensor_type_ = "LASER"
  /\ TwinAgrees
  /\ NIS_radar_ # last.twin.NIS_radar_
  /\ last.before.NIS_laser_ # last.twin.NIS_laser_
  /\ NIS_laser_ = last.twin.NIS_laser_
  /\ ~IsNaN(NIS_laser_)
====
